---- MODULE Spec2Model ----
(***************************************************************************)
(* rusty-rootsearch, src/lib.rs: root_search = find_bisections (a scan of  *)
(* `resolution` sub-intervals for strict sign changes) followed, for each  *)
(* bracket, by newton runs from up to 100 seeds.                           *)
(*                                                                         *)
(* Scalars.  T is instantiated as f32 (the only instantiation the crate's  *)
(* tests use).  A scalar is modelled on a uniform grid: an integer number  *)
(* of quanta in -MaxFinite..MaxFinite, or one of PInf, NInf, NaN.  Every   *)
(* arithmetic operation rounds to the grid (division: to nearest, ties to  *)
(* even), overflows to an infinity and propagates NaN as IEEE-754 does.    *)
(* T::epsilon() is one quantum.  Signed zeros are not distinguished.       *)
(* The intervals drawn are hundreds of quanta wide, as a bracket of f32    *)
(* values is many units in the last place wide.                            *)
(***************************************************************************)
EXTENDS Integers, Sequences, FiniteSets, TLC

\* ---------------------------------------------------------------- bounds
MaxFinite == 1000000000
MaxResolution == 3
MaxPatience == 2

\* ------------------------------------------------------ program constants
Epsilon == 1
NumSeeds == 100

\* ------------------------------------------------------------ scalars (T)
PInf == MaxFinite + 1
NInf == 0 - (MaxFinite + 1)
NaN == MaxFinite + 2

IsNaN(a) == a = NaN
IsInf(a) == a = PInf \/ a = NInf
IsFinite(a) == ~IsNaN(a) /\ ~IsInf(a)

IAbs(n) == IF n < 0 THEN 0 - n ELSE n
ISign(n) == IF n < 0 THEN 0 - 1 ELSE 1

\* an exact integer result brought back into the scalar range
FNorm(v) == IF v > MaxFinite THEN PInf ELSE IF v < 0 - MaxFinite THEN NInf ELSE v

FNeg(a) == IF IsNaN(a) THEN NaN ELSE 0 - a

FAdd(a, b) ==
    IF IsNaN(a) \/ IsNaN(b) THEN NaN
    ELSE IF IsInf(a) /\ IsInf(b) THEN (IF a = b THEN a ELSE NaN)
    ELSE IF IsInf(a) THEN a
    ELSE IF IsInf(b) THEN b
    ELSE FNorm(a + b)

FSub(a, b) == FAdd(a, FNeg(b))

FMul(a, b) ==
    IF IsNaN(a) \/ IsNaN(b) THEN NaN
    ELSE IF IsInf(a) \/ IsInf(b)
         THEN (IF a = 0 \/ b = 0 THEN NaN
               ELSE IF ISign(a) = ISign(b) THEN PInf ELSE NInf)
    ELSE IF a = 0 \/ b = 0 THEN 0
    ELSE IF IAbs(a) > MaxFinite \div IAbs(b)
         THEN (IF ISign(a) = ISign(b) THEN PInf ELSE NInf)
    ELSE a * b

\* quotient of two finite values, b # 0, rounded to nearest, ties to even
RoundDiv(a, b) ==
    LET q == IAbs(a) \div IAbs(b)
        r == IAbs(a) % IAbs(b)
        m == IF 2 * r > IAbs(b) THEN q + 1
             ELSE IF 2 * r = IAbs(b) THEN q + (q % 2)
             ELSE q
    IN  ISign(a) * ISign(b) * m

FDiv(a, b) ==
    IF IsNaN(a) \/ IsNaN(b) THEN NaN
    ELSE IF IsInf(a) /\ IsInf(b) THEN NaN
    ELSE IF IsInf(a) THEN (IF ISign(a) = ISign(b) THEN PInf ELSE NInf)
    ELSE IF IsInf(b) THEN 0
    ELSE IF b = 0 THEN (IF a = 0 THEN NaN ELSE IF a > 0 THEN PInf ELSE NInf)
    ELSE RoundDiv(a, b)

FAbs(a) == IF IsNaN(a) THEN NaN ELSE IAbs(a)

\* the comparisons <, > and == of the scalar type: false on NaN
FLt(a, b) == ~IsNaN(a) /\ ~IsNaN(b) /\ a < b
FGt(a, b) == FLt(b, a)
FEq(a, b) == ~IsNaN(a) /\ ~IsNaN(b) /\ a = b

FSignum(a) == IF IsNaN(a) THEN NaN ELSE IF a < 0 THEN 0 - 1 ELSE 1

\* --------------------------------------------------- dual numbers (N)
Dual(re, eps) == [re |-> re, eps |-> eps]

\* Coerceable::coerce_from: a dual number with no derivative part
coerce_from(value) == Dual(value, 0)
\* Derivable::execute_derivative: seeds the derivative part with 1
execute_derivative(d) == Dual(d.re, 1)
zeroth_derivative(d) == d.re
first_derivative(d) == d.eps

\* The operations of num_dual's Dual32.  Each binds its operands by
\* `a \in {x}`, so that an operand is evaluated once, like a Rust argument.
DConst(c) == Dual(c, 0)
DSub(x, y) ==
    CHOOSE r \in {Dual(FSub(a.re, b.re), FSub(a.eps, b.eps)) : a \in {x}, b \in {y}} : TRUE
DAdd(x, y) ==
    CHOOSE r \in {Dual(FAdd(a.re, b.re), FAdd(a.eps, b.eps)) : a \in {x}, b \in {y}} : TRUE
DMul(x, y) ==
    CHOOSE r \in {Dual(FMul(a.re, b.re), FAdd(FMul(a.re, b.eps), FMul(a.eps, b.re)))
                    : a \in {x}, b \in {y}} : TRUE
DAbs(x) == CHOOSE r \in {Dual(FAbs(a.re), FMul(a.eps, FSignum(a.re))) : a \in {x}} : TRUE
DSignum(x) == CHOOSE r \in {Dual(FSignum(a.re), 0) : a \in {x}} : TRUE

\* ------------------------------------------- the caller's function f
\* f is any closure over dual numbers; the model draws it from five shapes:
\*   lin  : s * (x - p)            one simple root, newton lands on it at once
\*   quad : s * (x - p) * (x - q)  two roots, zero slope half way between
\*   sq   : (x - p) * |x - p|      one root, newton halves the distance
\*   sgn  : signum(x - p)          a sign change with zero slope everywhere
\*   jump : (x - p) + q * signum(x - p)   a sign change at a jump, no root
Shape(fn, x, d) ==
    CASE fn.kind = "lin" -> DMul(DConst(fn.s), d)
      [] fn.kind = "quad" -> DMul(DMul(DConst(fn.s), d), DSub(x, DConst(fn.q)))
      [] fn.kind = "sq" -> DMul(d, DAbs(d))
      [] fn.kind = "sgn" -> DSignum(d)
      [] fn.kind = "jump" -> DAdd(d, DMul(DConst(fn.q), DSignum(d)))
Apply(fn, x) == CHOOSE r \in {Shape(fn, a, DSub(a, DConst(fn.p))) : a \in {x}} : TRUE

\* f(coerce_from(v)).zeroth_derivative(): the plain value of f at v
Value(fn, v) == zeroth_derivative(Apply(fn, coerce_from(v)))

Positions == {0 - 7, 50, 300, 401, 601, 900, 1201}
Slopes == {0 - 1, 1}
JumpHeights == {1500}
Functions ==
    [kind : {"lin"}, p : Positions, q : {0}, s : Slopes]
    \cup {fn \in [kind : {"quad"}, p : Positions, q : Positions, s : Slopes] : fn.p < fn.q}
    \cup [kind : {"sq", "sgn"}, p : Positions, q : {0}, s : {1}]
    \cup [kind : {"jump"}, p : Positions, q : JumpHeights, s : {1}]

Lowers == {0}
Uppers == {0 - 1200, 0, 1200, 2400}
Tolerances == {1, 50, 2000}

\* ------------------------------------------------------------- the state
VARIABLES
    f, lower, upper, patience, tolerance, resolution,  \* root_search's arguments
    pc,          \* where the call is
    fb_step,     \* find_bisections: step
    fb_i,        \* find_bisections: i of `for i in 0..resolution`
    values,      \* find_bisections: values
    bisections,  \* root_search: bisections
    roots,       \* root_search: roots
    bi,          \* root_search: position of `for bisection in &bisections` (1-based)
    rs_step,     \* root_search: step, one hundredth of the bracket
    rs_i,        \* root_search: i of `for i in 0..100`
    guess,       \* root_search: guess, newton's initial guess
    current,     \* newton: current
    count,       \* newton: count
    root,        \* root_search: root, the Option<T> newton returned
    evals        \* how many times f has been called so far

vars == <<f, lower, upper, patience, tolerance, resolution, pc, fb_step, fb_i,
          values, bisections, roots, bi, rs_step, rs_i, guess, current, count,
          root, evals>>

args == <<f, lower, upper, patience, tolerance, resolution>>

None == [some |-> FALSE, val |-> 0]
Some(v) == [some |-> TRUE, val |-> v]

\* before the call: no argument has been passed yet
NoFunction == [kind |-> "lin", p |-> 0, q |-> 0, s |-> 1]

Init ==
    /\ f = NoFunction
    /\ lower = 0
    /\ upper = 0
    /\ patience = 1
    /\ tolerance = 1
    /\ resolution = 1
    /\ pc = "idle"
    /\ fb_step = 0
    /\ fb_i = 0
    /\ values = <<>>
    /\ bisections = <<>>
    /\ roots = <<>>
    /\ bi = 0
    /\ rs_step = 0
    /\ rs_i = 0
    /\ guess = 0
    /\ current = 0
    /\ count = 0
    /\ root = None
    /\ evals = 0

\* ------------------------------------------------------- find_bisections
ScanStep(lo, up, res) == FAdd(FDiv(FSub(up, lo), res), Epsilon)
ScanPoint(lo, st, i) == FAdd(lo, FMul(st, i))

SignChangeLoose(fa, fb) ==
    LET pos2neg == ~FLt(fa, 0) /\ ~FGt(fb, 0)
        neg2pos == ~FGt(fa, 0) /\ ~FLt(fb, 0)
    IN  pos2neg \/ neg2pos

SignChange(fa, fb) ==
    LET pos2neg == FGt(fa, 0) /\ FLt(fb, 0)
        neg2pos == FLt(fa, 0) /\ FGt(fb, 0)
    IN  pos2neg \/ neg2pos

\* values.push((a, b))
RecordInFront(vs, a, b) == <<<<a, b>>>> \o vs
Record(vs, a, b) == Append(vs, <<a, b>>)

\* ----------------------------------------------------------------- newton
\* line 53, with x and z bound to their values
NewtonStep(x, z) ==
    CHOOSE next \in {FSub(zeroth_derivative(a), FDiv(zeroth_derivative(b), first_derivative(b)))
                       : a \in {x}, b \in {z}} : TRUE
NewtonNext(fn, cur) ==
    CHOOSE next \in {NewtonStep(x, Apply(fn, x))
                       : x \in {execute_derivative(coerce_from(cur))}} : TRUE

ConvergedOnValue(next, cur, tol) == FLt(FAbs(Value(f, next)), tol)
Converged(next, cur, tol) == FLt(FAbs(FSub(next, cur)), tol)
Exhausted(cnt, pat) == cnt > pat

\* ------------------------------------------------------------ root_search
BoundsRejectedInvertedOnly(lo, up) == FGt(lo, up)
BoundsRejected(lo, up) == FGt(lo, up) \/ FEq(lo, up)
SeedStep(bisection) == FDiv(FSub(bisection[2], bisection[1]), NumSeeds)
SeedFromOne(bisection, st, i) == FAdd(bisection[1], FMul(i + 1, st))
Seed(bisection, st, i) == FAdd(bisection[1], FMul(i, st))
InsideAboveLower(bisection, r) == FLt(bisection[1], r)
Inside(bisection, r) == FLt(bisection[1], r) /\ FLt(r, bisection[2])

\* lines 147-159: the call root_search(fn, lo, up, pat, tol, res): the two
\* bounds checks, then the call of find_bisections
Enter(fn, lo, up, pat, tol, res) ==
    /\ pc = "idle"
    /\ f' = fn /\ lower' = lo /\ upper' = up
    /\ patience' = pat /\ tolerance' = tol /\ resolution' = res
    /\ IF BoundsRejected(lo, up)
       THEN /\ pc' = "panic"
            /\ UNCHANGED fb_step
       ELSE /\ pc' = "find_bisections"
            /\ fb_step' = ScanStep(lo, up, res)
    /\ UNCHANGED <<fb_i, values, bisections, roots, bi, rs_step, rs_i,
                   guess, current, count, root, evals>>

Call ==
    /\ pc = "idle"
    /\ \E fn \in Functions, lo \in Lowers, up \in Uppers, pat \in 1..MaxPatience,
          tol \in Tolerances, res \in 1..MaxResolution :
           Enter(fn, lo, up, pat, tol, res)

\* lines 80-90: one turn of the scan loop
Scan ==
    /\ pc = "find_bisections"
    /\ fb_i < resolution
    /\ LET a == ScanPoint(lower, fb_step, fb_i)
           b == ScanPoint(lower, fb_step, fb_i + 1)
           fa == Value(f, a)
           fb == Value(f, b)
       IN  values' = IF SignChange(fa, fb) THEN Record(values, a, b) ELSE values
    /\ fb_i' = fb_i + 1
    /\ evals' = evals + 2
    /\ UNCHANGED <<args, pc, fb_step, bisections, roots, bi, rs_step, rs_i,
                   guess, current, count, root>>

\* lines 91, 159-160: the scan returns its list
ScanReturn ==
    /\ pc = "find_bisections"
    /\ fb_i >= resolution
    /\ bisections' = values
    /\ bi' = 1
    /\ pc' = "for_bisection"
    /\ UNCHANGED <<args, fb_step, fb_i, values, roots, rs_step, rs_i, guess,
                   current, count, root, evals>>

\* lines 161-163 and 181: the next bracket, or the return of the call
NextBisection ==
    /\ pc = "for_bisection"
    /\ IF bi <= Len(bisections)
       THEN /\ rs_step' = SeedStep(bisections[bi])
            /\ rs_i' = 0
            /\ pc' = "for_seed"
       ELSE /\ pc' = "done"
            /\ UNCHANGED <<rs_step, rs_i>>
    /\ UNCHANGED <<args, fb_step, fb_i, values, bisections, roots, bi, guess,
                   current, count, root, evals>>

\* lines 164-166 and 47-48: the next seed and the call of newton on it, or
\* the end of the bracket once all seeds are used
NextSeed ==
    /\ pc = "for_seed"
    /\ IF rs_i < NumSeeds
       THEN /\ guess' = Seed(bisections[bi], rs_step, rs_i)
            /\ current' = Seed(bisections[bi], rs_step, rs_i)
            /\ count' = 0
            /\ pc' = "newton"
            /\ UNCHANGED bi
       ELSE /\ bi' = bi + 1
            /\ pc' = "for_bisection"
            /\ UNCHANGED <<guess, current, count>>
    /\ UNCHANGED <<args, fb_step, fb_i, values, bisections, roots, rs_step, rs_i,
                   root, evals>>

\* lines 49-67: one turn of newton's loop
Newton ==
    /\ pc = "newton"
    /\ count' = count + 1
    /\ evals' = evals + 1
    /\ \E next \in {NewtonNext(f, current)} :
           IF Converged(next, current, tolerance)
           THEN /\ root' = Some(next)
                /\ pc' = "returned"
                /\ UNCHANGED current
           ELSE IF Exhausted(count + 1, patience)
                THEN /\ root' = None
                     /\ pc' = "returned"
                     /\ UNCHANGED current
                ELSE /\ current' = next
                     /\ UNCHANGED <<root, pc>>
    /\ UNCHANGED <<args, fb_step, fb_i, values, bisections, roots, bi, rs_step,
                   rs_i, guess>>

ReturnedNoBreak ==
    /\ pc = "returned"
    /\ IF ~root.some
       THEN /\ bi' = bi + 1
            /\ pc' = "for_bisection"
            /\ UNCHANGED <<roots, rs_i>>
       ELSE /\ roots' = IF Inside(bisections[bi], root.val)
                        THEN Append(roots, root.val) ELSE roots
            /\ rs_i' = rs_i + 1
            /\ pc' = "for_seed"
            /\ UNCHANGED bi
    /\ UNCHANGED <<args, fb_step, fb_i, values, bisections, rs_step, guess,
                   current, count, root, evals>>

ReturnedRetry ==
    /\ pc = "returned"
    /\ IF root.some /\ Inside(bisections[bi], root.val)
       THEN /\ roots' = Append(roots, root.val)
            /\ bi' = bi + 1
            /\ pc' = "for_bisection"
            /\ UNCHANGED rs_i
       ELSE /\ rs_i' = rs_i + 1
            /\ pc' = "for_seed"
            /\ UNCHANGED <<roots, bi>>
    /\ UNCHANGED <<args, fb_step, fb_i, values, bisections, rs_step, guess,
                   current, count, root, evals>>

\* lines 167-178: what root_search does with newton's result
Returned ==
    /\ pc = "returned"
    /\ IF ~root.some
       THEN /\ bi' = bi + 1
            /\ pc' = "for_bisection"
            /\ UNCHANGED <<roots, rs_i>>
       ELSE IF Inside(bisections[bi], root.val)
            THEN /\ roots' = Append(roots, root.val)
                 /\ bi' = bi + 1
                 /\ pc' = "for_bisection"
                 /\ UNCHANGED rs_i
            ELSE /\ rs_i' = rs_i + 1
                 /\ pc' = "for_seed"
                 /\ UNCHANGED <<roots, bi>>
    /\ UNCHANGED <<args, fb_step, fb_i, values, bisections, rs_step, guess,
                   current, count, root, evals>>

\* the steps of a call that has been entered
Run == Scan \/ ScanReturn \/ NextBisection \/ NextSeed \/ Newton \/ Returned

Next == Call \/ Run

Spec == Init /\ [][Next]_vars

\* the call runs to completion: nothing suspends or cancels it (single thread)
FairSpec == Spec /\ WF_vars(Run)

\* ====================================================== the claims
Bracket(k) == bisections[k]
\* the sub-interval i of the scan, from the arguments alone
SubLo(i) == lower + fb_step * i
SubHi(i) == lower + fb_step * (i + 1)
StrictChange(x, y) ==
    \/ Value(f, x) > 0 /\ Value(f, y) < 0
    \/ Value(f, x) < 0 /\ Value(f, y) > 0

\* C1: with lower < upper and resolution >= 1, every root the call returns
\* lies in [lower, upper].
C1_RootsWithinInterval ==
    (pc = "done" /\ lower < upper /\ resolution >= 1)
        => \A k \in 1..Len(roots) : lower <= roots[k] /\ roots[k] <= upper

\* C2: a root enters the list only as the Some(r) of a newton run seeded from
\* the current bracket, with r strictly between that bracket's two ends; the
\* bracket is an element of the returned list, and every listed root lies
\* strictly inside a listed bracket.
C2_Push ==
    roots' # roots =>
        /\ pc = "returned"
        /\ root.some
        /\ IsFinite(root.val)
        /\ roots' = Append(roots, root.val)
        /\ bi \in 1..Len(bisections)
        /\ Bracket(bi)[1] < root.val
        /\ root.val < Bracket(bi)[2]
        /\ \E i \in 0..(NumSeeds - 1) : i = rs_i /\ guess = Bracket(bi)[1] + i * rs_step
        /\ bisections' = bisections
C2_Listed ==
    \A k \in 1..Len(roots) :
        \E j \in 1..Len(bisections) :
            Bracket(j)[1] < roots[k] /\ roots[k] < Bracket(j)[2]
\* C2: every push is such a push, and every listed root lies strictly inside
\* a listed bracket.
C2_RootsFromBrackets == [](C2_Listed) /\ [][C2_Push]_vars
C2_Witness ==
    /\ pc = "done"
    /\ Len(roots) >= 1
    /\ Len(roots) < Len(bisections)

\* C3: the scan lists exactly the sub-intervals i in 0..resolution-1 whose two
\* sampled values differ strictly in sign, each as (lower + step*i,
\* lower + step*(i+1)) with a < b; a sub-interval with a zero sample at either
\* end is not listed.
C3_ScannedBrackets ==
    pc \in {"find_bisections", "for_bisection"} =>
        /\ \A k \in 1..Len(values) :
              /\ values[k][1] < values[k][2]
              /\ \E i \in 0..(fb_i - 1) :
                    /\ values[k] = <<SubLo(i), SubHi(i)>>
                    /\ StrictChange(SubLo(i), SubHi(i))
        /\ \A i \in 0..(fb_i - 1) :
              /\ StrictChange(SubLo(i), SubHi(i))
                    => \E k \in 1..Len(values) : values[k] = <<SubLo(i), SubHi(i)>>
              /\ (Value(f, SubLo(i)) = 0 \/ Value(f, SubHi(i)) = 0)
                    => \A k \in 1..Len(values) : values[k] # <<SubLo(i), SubHi(i)>>
        /\ fb_i <= resolution
        /\ (pc # "find_bisections" => fb_i = resolution /\ bisections = values)
C3_Witness ==
    /\ pc = "for_bisection"
    /\ Len(bisections) >= 1
    /\ \E i \in 0..(resolution - 1) : Value(f, SubHi(i)) = 0

\* C4: with lower = upper or lower > upper the call panics before f is called
\* or any list is built; with lower < upper it never panics.
C4_BoundsRejection ==
    /\ lower >= upper =>
          /\ pc \in {"idle", "panic"}
          /\ evals = 0
          /\ values = <<>> /\ bisections = <<>> /\ roots = <<>>
    /\ lower < upper => pc # "panic"
    /\ (pc # "idle" /\ lower >= upper) => pc = "panic"
C4_Witness == pc = "panic" /\ lower = upper

\* C5: a newton run performs at most `patience` iterations.
C5_AtMostPatience == (pc \in {"newton", "returned"} /\ patience >= 1) => count <= patience

\* C6: every turn of newton's loop computes next = current - f(current) /
\* f'(current) and decides by the step size alone: it returns Some(next) as
\* soon as |next - current| < tolerance, whatever f(next) is, and otherwise
\* either goes on from next or returns None, which carries no estimate; and
\* every newton run ends.
C6_Next ==
    CHOOSE n \in {FSub(current, FDiv(z.re, z.eps)) : z \in {Apply(f, Dual(current, 1))}} : TRUE
C6_SmallStep ==
    LET d == FSub(C6_Next, current)
    IN  IsFinite(d) /\ IAbs(d) < tolerance
C6_Turn ==
    pc = "newton" =>
        /\ C6_SmallStep => (pc' = "returned" /\ root' = Some(C6_Next))
        /\ ~C6_SmallStep =>
              \/ pc' = "newton" /\ current' = C6_Next /\ root' = root
              \/ pc' = "returned" /\ root' = None
        /\ count' = count + 1
BracketOf(r) ==
    CHOOSE j \in 1..Len(bisections) : Bracket(j)[1] < r /\ r < Bracket(j)[2]
C8_InsideBracket == IsFinite(root.val) /\ Bracket(bi)[1] < root.val /\ root.val < Bracket(bi)[2]
C8_Turn ==
    /\ (pc = "for_bisection" /\ pc' = "for_seed") => rs_i' = 0
    /\ (pc = "for_seed" /\ rs_i < NumSeeds) =>
          /\ pc' = "newton"
          /\ guess' = Bracket(bi)[1] + rs_i * rs_step
          /\ current' = guess' /\ count' = 0
    /\ (pc = "for_seed" /\ rs_i >= NumSeeds) =>
          /\ pc' = "for_bisection" /\ bi' = bi + 1 /\ roots' = roots
    /\ pc = "returned" =>
          /\ (pc' = "for_seed") <=> (root.some /\ ~C8_InsideBracket)
          /\ pc' = "for_seed" => (rs_i' = rs_i + 1 /\ bi' = bi /\ roots' = roots)
          /\ ~root.some =>
                (pc' = "for_bisection" /\ bi' = bi + 1 /\ roots' = roots)
          /\ (root.some /\ C8_InsideBracket) =>
                (pc' = "for_bisection" /\ bi' = bi + 1
                    /\ roots' = Append(roots, root.val))
\* C8: every step of the probing follows that rule.
C8_SeedProbing == [][C8_Turn]_vars
C8_Witness ==
    /\ pc = "returned"
    /\ rs_i >= 1
    /\ root.some
    /\ C8_InsideBracket

\* C9 as stated: every seed handed to newton lies strictly inside the
\* bracket, and seeds are (b - a)/100 apart.
C9_Spacing == (2 * (Bracket(bi)[2] - Bracket(bi)[1]) + NumSeeds) \div (2 * NumSeeds)
C10_Increasing ==
    /\ \A k \in 1..Len(values) : values[k][1] < values[k][2]
    /\ \A k \in 1..(Len(values) - 1) : values[k][2] <= values[k + 1][1]
    /\ \A k \in 1..Len(bisections) : Bracket(k)[1] < Bracket(k)[2]
    /\ \A k \in 1..(Len(bisections) - 1) : Bracket(k)[2] <= Bracket(k + 1)[1]
    /\ \A k \in 1..(Len(roots) - 1) : roots[k] < roots[k + 1]
C10_Witness ==
    /\ pc = "done"
    /\ Len(bisections) = 2
    /\ Bracket(1)[2] = Bracket(2)[1]
    /\ Len(roots) = 2

====
